---------------------------- MODULE Spec2Model ----------------------------
(***************************************************************************)
(* The subLSTM cell family of src/src/subLSTM/torchscript/cell.py:         *)
(* SubLSTMCell, LayerNormSubLSTMCell, fixSubLSTMCell,                      *)
(* LayerNormFixSubLSTMCell and PremulSubLSTMCell.                          *)
(*                                                                         *)
(* Numbers.  A tensor element is a number of a small binary floating-point *)
(* format: an integer count of quarters (One = 4 stands for 1.0) that      *)
(* keeps Prec significant bits, so every arithmetic result is rounded to   *)
(* the nearest representable number, ties to the even significand, as the  *)
(* engine's float32 does with 24 bits.  Addition is therefore not          *)
(* associative and large numbers absorb small ones.  Infinities and NaN    *)
(* are not modelled: every number drawn below is finite and far from       *)
(* overflow.                                                               *)
(*                                                                         *)
(* Tensors.  A 2-D tensor is a sequence of rows, each a sequence of        *)
(* numbers; a 1-D parameter (a bias, the forget vector, a LayerNorm        *)
(* weight) is a single row.  Shapes are <<rows, columns>>; NoShape is the  *)
(* result of an operation the engine rejects.                              *)
(***************************************************************************)
EXTENDS Integers, Sequences, FiniteSets, TLC

\* ------------------------------------------------------------------------
\* Scalar arithmetic of the engine
\* ------------------------------------------------------------------------

\* 1.0 in quarters: the upper end of sigmoid's range and of tanh's.
One == 4

\* Significant bits a number keeps (float32 keeps 24).
Prec == 3

Abs(v) == IF v < 0 THEN -v ELSE v

Sgn(v) == IF v < 0 THEN -1 ELSE 1

RECURSIVE Pow2(_)
Pow2(n) == IF n = 0 THEN 1 ELSE 2 * Pow2(n - 1)

\* Integers below this magnitude are all representable.
Exact == Pow2(Prec)

\* Spacing of the representable numbers around magnitude a.
RECURSIVE Ulp(_)
Ulp(a) == IF a < Exact THEN 1 ELSE 2 * Ulp(a \div 2)

\* The quotient num/den (den > 0) rounded to the nearest representable
\* number, ties to the even significand.
FlQ(num, den) ==
    LET a   == Abs(num)
        u   == Ulp(a \div den)
        q   == a \div (den * u)
        rem == a - q * den * u
        up  == \/ 2 * rem > den * u
               \/ 2 * rem = den * u /\ q % 2 = 1
    IN  Sgn(num) * (IF up THEN (q + 1) * u ELSE q * u)

Fl(v) == FlQ(v, 1)

Add(a, b) == Fl(a + b)

Sub(a, b) == Fl(a - b)

Mul(a, b) == FlQ(a * b, One)

Div(a, b) == Sgn(b) * FlQ(a * One, Abs(b))

\* Logistic sigmoid, to the nearest quarter: 0 and 1 are reached.
sigmoid(z) ==
    IF z >= 8 THEN 4
    ELSE IF z >= 3 THEN 3
    ELSE IF z >= -2 THEN 2
    ELSE IF z >= -7 THEN 1
    ELSE 0

TanhPos(a) == IF a >= 6 THEN 4 ELSE IF a >= 3 THEN 3 ELSE a

\* Hyperbolic tangent, to the nearest quarter: odd, -1 and 1 are reached.
tanh(c) == Sgn(c) * TanhPos(Abs(c))

RECURSIVE ISqrt(_, _)
ISqrt(n, r) == IF (r + 1) * (r + 1) > n THEN r ELSE ISqrt(n, r + 1)

\* Square root of a non-negative number, rounded down to a quarter.
Sqrt(v) == ISqrt(v * One, 0)

\* ------------------------------------------------------------------------
\* Tensors
\* ------------------------------------------------------------------------

NoShape == << >>

Rows(t) == Len(t)

Cols(t) == Len(t[1])

Shape(t) == <<Rows(t), Cols(t)>>

Max(a, b) == IF a >= b THEN a ELSE b

\* Shape of an elementwise operation on shapes s and t under the engine's
\* broadcasting: per axis the sizes are equal or one of them is 1.
BroadcastShape(s, t) ==
    IF s = NoShape \/ t = NoShape THEN NoShape
    ELSE IF /\ (s[1] = t[1] \/ s[1] = 1 \/ t[1] = 1)
            /\ (s[2] = t[2] \/ s[2] = 1 \/ t[2] = 1)
         THEN <<Max(s[1], t[1]), Max(s[2], t[2])>>
         ELSE NoShape

\* Shape of torch.mm(a, w.t()) for a of shape s and w of shape t.
MmShape(s, t) ==
    IF s = NoShape \/ t = NoShape THEN NoShape
    ELSE IF s[2] = t[2] THEN <<s[1], t[1]>> ELSE NoShape

\* Element (r, k) of t seen through broadcasting.
At(t, r, k) ==
    t[IF Rows(t) = 1 THEN 1 ELSE r][IF Cols(t) = 1 THEN 1 ELSE k]

\* Elementwise operations, broadcast to the common shape.
TAdd(a, b) ==
    [r \in 1..Max(Rows(a), Rows(b)) |->
        [k \in 1..Max(Cols(a), Cols(b)) |-> Add(At(a, r, k), At(b, r, k))]]

TSub(a, b) ==
    [r \in 1..Max(Rows(a), Rows(b)) |->
        [k \in 1..Max(Cols(a), Cols(b)) |-> Sub(At(a, r, k), At(b, r, k))]]

TMul(a, b) ==
    [r \in 1..Max(Rows(a), Rows(b)) |->
        [k \in 1..Max(Cols(a), Cols(b)) |-> Mul(At(a, r, k), At(b, r, k))]]

TSigmoid(a) == [r \in 1..Rows(a) |-> [k \in 1..Cols(a) |-> sigmoid(a[r][k])]]

TTanh(a) == [r \in 1..Rows(a) |-> [k \in 1..Cols(a) |-> tanh(a[r][k])]]

\* Dot product of two rows, accumulated from the first index upwards.
RECURSIVE Dot(_, _, _)
Dot(x, w, n) ==
    IF n = 1 THEN Mul(x[1], w[1])
    ELSE Add(Dot(x, w, n - 1), Mul(x[n], w[n]))

\* torch.mm(a, w.t()): out[b][r] = sum over k of a[b][k] * w[r][k].
MmT(a, w) ==
    [b \in 1..Rows(a) |-> [r \in 1..Rows(w) |-> Dot(a[b], w[r], Cols(a))]]

\* Slice k (1-based) of the n equal contiguous slices of t along columns.
chunk(t, n, k) ==
    LET cs == (Cols(t) + n - 1) \div n
    IN  [r \in 1..Rows(t) |-> [j \in 1..cs |-> t[r][(k - 1) * cs + j]]]

\* nn.LayerNorm's eps, added to the variance before the square root.
LnEps == 1

RECURSIVE RowSum(_, _)
RowSum(x, n) == IF n = 1 THEN x[1] ELSE Add(RowSum(x, n - 1), x[n])

\* F.layer_norm on one row: standardize across the features, then scale by
\* weight and shift by bias.
LnRow(x, weight, bias) ==
    LET n    == Len(x)
        mean == FlQ(RowSum(x, n), n)
        d    == [k \in 1..n |-> Sub(x[k], mean)]
        var  == FlQ(RowSum([k \in 1..n |-> Mul(d[k], d[k])], n), n)
        std  == Sqrt(Add(var, LnEps))
    IN  [k \in 1..n |-> Add(Mul(Div(d[k], std), weight[1][k]), bias[1][k])]

\* nn.LayerNorm.forward: the engine rejects a tensor whose feature width is
\* not normalized_shape.
LnShape(ln, s) ==
    IF s = NoShape THEN NoShape
    ELSE IF s[2] = ln.normalized_shape THEN s ELSE NoShape

LayerNorm(ln, t) == [r \in 1..Rows(t) |-> LnRow(t[r], ln.weight, ln.bias)]

\* ------------------------------------------------------------------------
\* What a call of forward ends in
\* ------------------------------------------------------------------------

Nil == << >>

\* `return hy, (hy, cy)`; gates and forget are the call's intermediate gate
\* tensor and the factor that multiplied cx.
Returned(out, hy, cy, gates, forget) ==
    [status |-> "ok", out |-> out, state |-> <<hy, cy>>,
     gates |-> gates, forget |-> forget]

\* The call raised: nothing is returned.
Raised(kind) ==
    [status |-> kind, out |-> Nil, state |-> <<Nil, Nil>>,
     gates |-> Nil, forget |-> Nil]

\* ------------------------------------------------------------------------
\* SubLSTMCell
\* ------------------------------------------------------------------------

SubLSTMCellGateShape(self, input, hx) ==
    BroadcastShape(
        BroadcastShape(
            BroadcastShape(MmShape(Shape(input), Shape(self.weight_ih)),
                           Shape(self.bias_ih)),
            MmShape(Shape(hx), Shape(self.weight_hh))),
        Shape(self.bias_hh))

\* Shape of cy = (forget * cx) + (cellgate - ingate) for a forget factor of
\* shape f and gate slices of shape s; hy = tanh(cy) - outgate has the same.
CyShape(f, s, cx) == BroadcastShape(BroadcastShape(f, Shape(cx)), s)

SliceShape(gs, n) == IF gs = NoShape THEN NoShape ELSE <<gs[1], gs[2] \div n>>

SubLSTMCellGates(self, input, hx) ==
    TSigmoid(TAdd(TAdd(TAdd(MmT(input, self.weight_ih), self.bias_ih),
                       MmT(hx, self.weight_hh)),
                  self.bias_hh))

\* SubLSTMCellForward adding the input gate to the cell gate.
SubLSTMCellForwardAddsInput(self, input, state) ==
    LET gates == SubLSTMCellGates(self, input, state[1])
        cy == TAdd(TMul(chunk(gates, 4, 2), state[2]),
                   TAdd(chunk(gates, 4, 3), chunk(gates, 4, 1)))
        hy == TSub(TTanh(cy), chunk(gates, 4, 4))
    IN  IF CyShape(SliceShape(SubLSTMCellGateShape(self, input, state[1]), 4),
                   SliceShape(SubLSTMCellGateShape(self, input, state[1]), 4),
                   state[2]) = NoShape
        THEN Raised("shape_error")
        ELSE Returned(hy, hy, cy, gates, chunk(gates, 4, 2))

\* SubLSTMCellForward with the gating of a standard LSTM: the input gate
\* multiplies the cell gate instead of being subtracted from it.
SubLSTMCellForwardMultiplicative(self, input, state) ==
    LET gates == SubLSTMCellGates(self, input, state[1])
        cy == TAdd(TMul(chunk(gates, 4, 2), state[2]),
                   TMul(chunk(gates, 4, 1), chunk(gates, 4, 3)))
        hy == TSub(TTanh(cy), chunk(gates, 4, 4))
    IN  IF CyShape(SliceShape(SubLSTMCellGateShape(self, input, state[1]), 4),
                   SliceShape(SubLSTMCellGateShape(self, input, state[1]), 4),
                   state[2]) = NoShape
        THEN Raised("shape_error")
        ELSE Returned(hy, hy, cy, gates, chunk(gates, 4, 2))

SubLSTMCellForward(self, input, state) ==
    LET hx == state[1]
        cx == state[2]
        gs == SubLSTMCellGateShape(self, input, hx)
    IN  IF CyShape(SliceShape(gs, 4), SliceShape(gs, 4), cx) = NoShape THEN Raised("shape_error")
        ELSE
        LET gates      == SubLSTMCellGates(self, input, hx)
            ingate     == chunk(gates, 4, 1)
            forgetgate == chunk(gates, 4, 2)
            cellgate   == chunk(gates, 4, 3)
            outgate    == chunk(gates, 4, 4)
            cy == TAdd(TMul(forgetgate, cx), TSub(cellgate, ingate))
            hy == TSub(TTanh(cy), outgate)
        IN  Returned(hy, hy, cy, gates, forgetgate)

\* ------------------------------------------------------------------------
\* LayerNormSubLSTMCell
\* ------------------------------------------------------------------------

LayerNormGateShape(self, input, hx) ==
    BroadcastShape(
        LnShape(self.layernorm_i, MmShape(Shape(input), Shape(self.weight_ih))),
        LnShape(self.layernorm_h, MmShape(Shape(hx), Shape(self.weight_hh))))

LayerNormGates(self, input, hx) ==
    LET igates == LayerNorm(self.layernorm_i, MmT(input, self.weight_ih))
        hgates == LayerNorm(self.layernorm_h, MmT(hx, self.weight_hh))
    IN  TSigmoid(TAdd(igates, hgates))

\* The last statement, `return hy (hy, cy)`, calls the tensor hy with two
\* arguments: a tensor is not callable, so every call that gets that far
\* raises TypeError and returns nothing.
LayerNormSubLSTMCellForward(self, input, state) ==
    LET hx == state[1]
        cx == state[2]
        gs == LayerNormGateShape(self, input, hx)
    IN  IF LnShape(self.layernorm_c,
                   CyShape(SliceShape(gs, 4), SliceShape(gs, 4), cx)) = NoShape
        THEN Raised("shape_error")
        ELSE Raised("type_error")

\* ------------------------------------------------------------------------
\* fixSubLSTMCell
\* ------------------------------------------------------------------------

\* fixSubLSTMCellForward without the sigmoid on the forget vector.
fixSubLSTMCellForwardRawForget(self, input, state) ==
    LET gates == SubLSTMCellGates(self, input, state[1])
        cy == TAdd(TMul(self.forgetgate, state[2]),
                   TSub(chunk(gates, 3, 2), chunk(gates, 3, 1)))
        hy == TSub(TTanh(cy), chunk(gates, 3, 3))
    IN  IF CyShape(Shape(self.forgetgate),
                   SliceShape(SubLSTMCellGateShape(self, input, state[1]), 3),
                   state[2]) = NoShape
        THEN Raised("shape_error")
        ELSE Returned(hy, hy, cy, gates, self.forgetgate)

\* fixSubLSTMCellForward reading the first row of cx for every row of the
\* batch.
fixSubLSTMCellForwardFirstRow(self, input, state) ==
    LET gates == SubLSTMCellGates(self, input, state[1])
        cy == TAdd(TMul(TSigmoid(self.forgetgate), <<state[2][1]>>),
                   TSub(chunk(gates, 3, 2), chunk(gates, 3, 1)))
        hy == TSub(TTanh(cy), chunk(gates, 3, 3))
    IN  IF CyShape(Shape(self.forgetgate),
                   SliceShape(SubLSTMCellGateShape(self, input, state[1]), 3),
                   state[2]) = NoShape
        THEN Raised("shape_error")
        ELSE Returned(hy, hy, cy, gates, TSigmoid(self.forgetgate))

fixSubLSTMCellForward(self, input, state) ==
    LET hx == state[1]
        cx == state[2]
        gs == SubLSTMCellGateShape(self, input, hx)
    IN  IF CyShape(Shape(self.forgetgate), SliceShape(gs, 3), cx) = NoShape THEN Raised("shape_error")
        ELSE
        LET gates    == SubLSTMCellGates(self, input, hx)
            ingate   == chunk(gates, 3, 1)
            cellgate == chunk(gates, 3, 2)
            outgate  == chunk(gates, 3, 3)
            forget   == TSigmoid(self.forgetgate)
            cy == TAdd(TMul(forget, cx), TSub(cellgate, ingate))
            hy == TSub(TTanh(cy), outgate)
        IN  Returned(hy, hy, cy, gates, forget)

\* ------------------------------------------------------------------------
\* LayerNormFixSubLSTMCell
\* ------------------------------------------------------------------------

LayerNormFixSubLSTMCellForward(self, input, state) ==
    LET hx == state[1]
        cx == state[2]
        gs == LayerNormGateShape(self, input, hx)
    IN  IF LnShape(self.layernorm_c,
                   CyShape(Shape(self.forgetgate), SliceShape(gs, 3), cx)) = NoShape
        THEN Raised("shape_error")
        ELSE
        LET gates    == LayerNormGates(self, input, hx)
            ingate   == chunk(gates, 3, 1)
            cellgate == chunk(gates, 3, 2)
            outgate  == chunk(gates, 3, 3)
            forget   == TSigmoid(self.forgetgate)
            cy == LayerNorm(self.layernorm_c,
                            TAdd(TMul(forget, cx), TSub(cellgate, ingate)))
            hy == TSub(TTanh(cy), outgate)
        IN  Returned(hy, hy, cy, gates, forget)

\* ------------------------------------------------------------------------
\* PremulSubLSTMCell
\* ------------------------------------------------------------------------

PremulGateShape(self, premul_input, hx) ==
    BroadcastShape(
        BroadcastShape(Shape(premul_input),
                       MmShape(Shape(hx), Shape(self.weight_hh))),
        Shape(self.bias_hh))

\* PremulGates adding bias_hh to the hidden-side projection first.
PremulGatesBiasFirst(self, premul_input, hx) ==
    TSigmoid(TAdd(premul_input, TAdd(MmT(hx, self.weight_hh), self.bias_hh)))

PremulGates(self, premul_input, hx) ==
    TSigmoid(TAdd(TAdd(premul_input, MmT(hx, self.weight_hh)), self.bias_hh))

PremulSubLSTMCellForward(self, premul_input, state) ==
    LET hx == state[1]
        cx == state[2]
        gs == PremulGateShape(self, premul_input, hx)
    IN  IF CyShape(SliceShape(gs, 4), SliceShape(gs, 4), cx) = NoShape THEN Raised("shape_error")
        ELSE
        LET gates      == PremulGates(self, premul_input, hx)
            ingate     == chunk(gates, 4, 1)
            forgetgate == chunk(gates, 4, 2)
            cellgate   == chunk(gates, 4, 3)
            outgate    == chunk(gates, 4, 4)
            cy == TAdd(TMul(forgetgate, cx), TSub(cellgate, ingate))
            hy == TSub(TTanh(cy), outgate)
        IN  Returned(hy, hy, cy, gates, forgetgate)

\* ------------------------------------------------------------------------
\* Construction
\* ------------------------------------------------------------------------

\* Largest input_size, hidden_size and batch size drawn.
MaxI == 2

MaxH == 2

MaxB == 2

\* Number of distinct draws of torch.randn for the parameters, and for the
\* arguments of a call.
NSeeds == 2

ArgSeeds == 2

RandnVals == <<-8, 4, -2, 0, 2, -4, 8, 1, -1>>

\* torch.randn: element (r, k) of draw s.
Randn(s, r, k) == RandnVals[((s * 5 + r * 3 + k * 7) % Len(RandnVals)) + 1]

RandnT(s, rows, cols) == [r \in 1..rows |-> [k \in 1..cols |-> Randn(s, r, k)]]

\* nn.LayerNorm(n): weight of ones, bias of zeros.
LayerNormInit(n) ==
    [normalized_shape |-> n,
     weight |-> <<[k \in 1..n |-> One]>>,
     bias   |-> <<[k \in 1..n |-> 0]>>]

SubLSTMCellInit(input_size, hidden_size, s) ==
    [input_size  |-> input_size,
     hidden_size |-> hidden_size,
     weight_ih   |-> RandnT(s, 4 * hidden_size, input_size),
     weight_hh   |-> RandnT(s + 1, 4 * hidden_size, hidden_size),
     bias_ih     |-> RandnT(s + 2, 1, 4 * hidden_size),
     bias_hh     |-> RandnT(s + 3, 1, 4 * hidden_size)]

LayerNormSubLSTMCellInit(input_size, hidden_size, s) ==
    [input_size  |-> input_size,
     hidden_size |-> hidden_size,
     weight_ih   |-> RandnT(s, 4 * hidden_size, input_size),
     weight_hh   |-> RandnT(s + 1, 4 * hidden_size, hidden_size),
     layernorm_i |-> LayerNormInit(4 * hidden_size),
     layernorm_h |-> LayerNormInit(4 * hidden_size),
     layernorm_c |-> LayerNormInit(hidden_size)]

fixSubLSTMCellInit(input_size, hidden_size, s) ==
    [input_size  |-> input_size,
     hidden_size |-> hidden_size,
     weight_ih   |-> RandnT(s, 3 * hidden_size, input_size),
     weight_hh   |-> RandnT(s + 1, 3 * hidden_size, hidden_size),
     bias_ih     |-> RandnT(s + 2, 1, 3 * hidden_size),
     bias_hh     |-> RandnT(s + 3, 1, 3 * hidden_size),
     forgetgate  |-> RandnT(s + 4, 1, hidden_size)]

LayerNormFixSubLSTMCellInit(input_size, hidden_size, s) ==
    [input_size  |-> input_size,
     hidden_size |-> hidden_size,
     weight_ih   |-> RandnT(s, 3 * hidden_size, input_size),
     weight_hh   |-> RandnT(s + 1, 3 * hidden_size, hidden_size),
     forgetgate  |-> RandnT(s + 4, 1, hidden_size),
     layernorm_i |-> LayerNormInit(3 * hidden_size),
     layernorm_h |-> LayerNormInit(3 * hidden_size),
     layernorm_c |-> LayerNormInit(hidden_size)]

PremulSubLSTMCellInit(input_size, hidden_size, s) ==
    [input_size  |-> input_size,
     hidden_size |-> hidden_size,
     weight_hh   |-> RandnT(s + 1, 4 * hidden_size, hidden_size),
     bias_hh     |-> RandnT(s + 3, 1, 4 * hidden_size)]

Variants == {"SubLSTMCell", "LayerNormSubLSTMCell", "fixSubLSTMCell",
             "LayerNormFixSubLSTMCell", "PremulSubLSTMCell"}

\* One instance of a class, constructed with draw s.
CellInit(v, input_size, hidden_size, s) ==
    CASE v = "SubLSTMCell" -> SubLSTMCellInit(input_size, hidden_size, s)
      [] v = "LayerNormSubLSTMCell" ->
            LayerNormSubLSTMCellInit(input_size, hidden_size, s)
      [] v = "fixSubLSTMCell" -> fixSubLSTMCellInit(input_size, hidden_size, s)
      [] v = "LayerNormFixSubLSTMCell" ->
            LayerNormFixSubLSTMCellInit(input_size, hidden_size, s)
      [] v = "PremulSubLSTMCell" ->
            PremulSubLSTMCellInit(input_size, hidden_size, s)

\* ------------------------------------------------------------------------
\* State
\* ------------------------------------------------------------------------

VARIABLES
    cells,     \* the five cell instances: class name -> its fields
    last,      \* the most recent call of forward: arguments and what it ended in
    nupdates,  \* external parameter updates applied so far
    ncalls,    \* calls of forward made so far
    origin     \* the state pair an unrolling driver started from (SpecThread)

vars == <<cells, last, nupdates, ncalls, origin>>

\* External parameter updates, and calls of forward, followed in a run.
MaxUpdates == 1

MaxCalls == 2

\* The draw a class's instance is constructed with: the instances do not
\* share parameters at construction.
SeedOf(v, s) ==
    CASE v = "SubLSTMCell" -> s
      [] v = "LayerNormSubLSTMCell" -> s + 1
      [] v = "fixSubLSTMCell" -> s + 2
      [] v = "LayerNormFixSubLSTMCell" -> s + 3
      [] v = "PremulSubLSTMCell" -> s + 4

Construct(input_size, hidden_size, s) ==
    [v \in Variants |-> CellInit(v, input_size, hidden_size, SeedOf(v, s))]

NoCall ==
    [variant |-> "none", input |-> Nil, state |-> <<Nil, Nil>>, raw |-> Nil,
     epoch |-> 0, res |-> Raised("none"), again |-> FALSE]

Init ==
    /\ \E input_size \in 1..MaxI, hidden_size \in 1..MaxH, s \in 1..NSeeds :
           cells = Construct(input_size, hidden_size, s)
    /\ last = NoCall
    /\ nupdates = 0
    /\ ncalls = 0
    /\ origin = <<Nil, Nil>>

\* ------------------------------------------------------------------------
\* Arguments of a call
\* ------------------------------------------------------------------------

ArgVals == <<4, -4, 0, 8, -2, 2, -8>>

\* Element (r, k) of argument draw s.
ArgAt(s, r, k) == ArgVals[((s * 3 + r * 5 + k * 2) % Len(ArgVals)) + 1]

ArgT(s, rows, cols) == [r \in 1..rows |-> [k \in 1..cols |-> ArgAt(s, r, k)]]

\* What may be wrong with the shapes of a call's arguments.
Defects == {"none", "input_width", "input_batch", "hx_width", "hx_batch",
            "cx_width", "cx_batch"}

Bump(d, which, n) == IF d = which THEN n + 1 ELSE n

\* The draws made with well-shaped arguments, and with malformed ones.
DrawsFor(d) == IF d = "none" THEN 1..ArgSeeds ELSE {1}

\* <<input, (hx, cx)>> for a cell with the given sizes: batch size B, draw s,
\* and one dimension off by one when d is not "none".
Args(input_size, hidden_size, B, s, d) ==
    <<ArgT(s, Bump(d, "input_batch", B), Bump(d, "input_width", input_size)),
      <<ArgT(s + 1, Bump(d, "hx_batch", B), Bump(d, "hx_width", hidden_size)),
        ArgT(s + 2, Bump(d, "cx_batch", B), Bump(d, "cx_width", hidden_size))>>>>

\* The caller's prefusion for PremulSubLSTMCell: input . Wih^T + bias_ih with
\* the input-side parameters of the SubLSTMCell instance.
Prefuse(self, input) == TAdd(MmT(input, self.weight_ih), self.bias_ih)

\* ------------------------------------------------------------------------
\* Operations
\* ------------------------------------------------------------------------

\* The call self(input, state) on the instance of class v repeats the call
\* before it, no parameter written in between.
SameCall(v, input, state) ==
    /\ last.variant = v /\ last.epoch = nupdates
    /\ last.input = input /\ last.state = state

\* Called with the instance keeping the new hidden state in a field.
CalledKeepingState(v, input, state, raw, res) ==
    /\ last' = [variant |-> v, input |-> input, state |-> state, raw |-> raw,
                epoch |-> nupdates, res |-> res,
                again |-> SameCall(v, input, state)]
    /\ ncalls' = ncalls + 1
    /\ cells' = [cells EXCEPT ![v] =
                    [f \in DOMAIN @ \cup {"hx"} |->
                        IF f = "hx" THEN res.state[1] ELSE @[f]]]
    /\ UNCHANGED <<nupdates, origin>>

\* A call self(input, state) on the instance of class v has ended in res.
\* forward reads the instance's fields and assigns none of them.
Called(v, input, state, raw, res) ==
    /\ last' = [variant |-> v, input |-> input, state |-> state, raw |-> raw,
                epoch |-> nupdates, res |-> res,
                again |-> SameCall(v, input, state)]
    /\ ncalls' = ncalls + 1
    /\ UNCHANGED <<cells, nupdates, origin>>

\* The arguments a caller may hand to the instance of class v.
CallArgs(v) ==
    UNION { { Args(cells[v].input_size, cells[v].hidden_size, B, s, d) :
              s \in DrawsFor(d) } : B \in 1..MaxB, d \in Defects }

CallSubLSTMCell ==
    /\ ncalls < MaxCalls
    /\ \E a \in CallArgs("SubLSTMCell") :
           Called("SubLSTMCell", a[1], a[2], a[1],
                  SubLSTMCellForward(cells["SubLSTMCell"], a[1], a[2]))

CallLayerNormSubLSTMCell ==
    /\ ncalls < MaxCalls
    /\ \E a \in CallArgs("LayerNormSubLSTMCell") :
           Called("LayerNormSubLSTMCell", a[1], a[2], a[1],
                  LayerNormSubLSTMCellForward(cells["LayerNormSubLSTMCell"],
                                              a[1], a[2]))

CallFixSubLSTMCell ==
    /\ ncalls < MaxCalls
    /\ \E a \in CallArgs("fixSubLSTMCell") :
           Called("fixSubLSTMCell", a[1], a[2], a[1],
                  fixSubLSTMCellForward(cells["fixSubLSTMCell"], a[1], a[2]))

CallLayerNormFixSubLSTMCell ==
    /\ ncalls < MaxCalls
    /\ \E a \in CallArgs("LayerNormFixSubLSTMCell") :
           Called("LayerNormFixSubLSTMCell", a[1], a[2], a[1],
                  LayerNormFixSubLSTMCellForward(
                      cells["LayerNormFixSubLSTMCell"], a[1], a[2]))

\* The caller prefuses a raw input with the SubLSTMCell instance's input-side
\* parameters, or hands in a tensor of the wrong width.
\* What the caller hands in as premul_input for the raw input a[1]: its
\* prefusion, or a tensor one column too wide.
PremulInput(a, d) ==
    IF d = "input_width"
    THEN ArgT(1, Rows(a[1]), 4 * cells["PremulSubLSTMCell"].hidden_size + 1)
    ELSE Prefuse(cells["SubLSTMCell"], a[1])

CallPremulSubLSTMCell ==
    /\ ncalls < MaxCalls
    /\ \E B \in 1..MaxB, d \in Defects :
           \E s \in DrawsFor(d) :
               \E a \in {Args(cells["PremulSubLSTMCell"].input_size,
                              cells["PremulSubLSTMCell"].hidden_size, B, s,
                              IF d = "input_width" THEN "none" ELSE d)} :
                   \E premul_input \in {PremulInput(a, d)} :
                       Called("PremulSubLSTMCell", premul_input, a[2], a[1],
                              PremulSubLSTMCellForward(
                                  cells["PremulSubLSTMCell"], premul_input, a[2]))

\* Every parameter tensor of a cell replaced by a new one of the same shape.
Redraw(v, self, s) ==
    LET fresh == CellInit(v, self.input_size, self.hidden_size, s)
        Ln(ln, k) == [ln EXCEPT !.weight = RandnT(s + k, 1, ln.normalized_shape),
                                !.bias = RandnT(s + k + 1, 1, ln.normalized_shape)]
    IN  IF v \in {"LayerNormSubLSTMCell", "LayerNormFixSubLSTMCell"}
        THEN [fresh EXCEPT !.layernorm_i = Ln(@, 5),
                           !.layernorm_h = Ln(@, 6),
                           !.layernorm_c = Ln(@, 7)]
        ELSE fresh

\* The host's write of the parameters between two calls (a gradient step, a
\* load of trained parameters): the only writer of a cell's fields.  Every
\* instance is written from the same draw, after which the instances hold
\* equal tensors in the parameters they have in common.
ParamUpdate ==
    /\ nupdates < MaxUpdates
    /\ \E s \in 1..NSeeds :
           cells' = [v \in Variants |-> Redraw(v, cells[v], s)]
    /\ nupdates' = nupdates + 1
    /\ UNCHANGED <<last, ncalls, origin>>

Next ==
    \/ CallLayerNormSubLSTMCell
    \/ CallSubLSTMCell
    \/ CallFixSubLSTMCell
    \/ CallLayerNormFixSubLSTMCell
    \/ CallPremulSubLSTMCell
    \/ ParamUpdate

Spec == Init /\ [][Next]_vars

\* ------------------------------------------------------------------------
\* An unrolling driver: the state pair a call returns is the next call's state
\* ------------------------------------------------------------------------

\* Timesteps the driver unrolls.
MaxSteps == 3

CellVals == <<40, -2, -40, 3, 56, 0, -5>>

\* A cell state the driver may start from: small and large magnitudes.
CellT(s, rows, cols) ==
    [r \in 1..rows |->
        [k \in 1..cols |-> CellVals[((s * 2 + r * 3 + k) % Len(CellVals)) + 1]]]

InitThread ==
    /\ \E input_size \in 1..MaxI, hidden_size \in 1..MaxH, s \in 1..NSeeds :
           /\ cells = Construct(input_size, hidden_size, s)
           /\ \E B \in 1..MaxB, a \in 1..ArgSeeds :
                  origin = <<ArgT(a + 1, B, hidden_size), CellT(a, B, hidden_size)>>
    /\ last = NoCall
    /\ nupdates = 0
    /\ ncalls = 0

\* The state pair threaded into the next call.
Threaded == IF ncalls = 0 THEN origin ELSE last.res.state

\* The inputs of a timestep: the batch size is that of the threaded state.
StepInputs(v) ==
    { ArgT(s, Rows(Threaded[1]), cells[v].input_size) : s \in 1..ArgSeeds }

StepSubLSTMCell ==
    /\ ncalls < MaxSteps
    /\ \E x \in StepInputs("SubLSTMCell") :
           Called("SubLSTMCell", x, Threaded, x,
                  SubLSTMCellForward(cells["SubLSTMCell"], x, Threaded))

StepFixSubLSTMCell ==
    /\ ncalls < MaxSteps
    /\ \E x \in StepInputs("fixSubLSTMCell") :
           Called("fixSubLSTMCell", x, Threaded, x,
                  fixSubLSTMCellForward(cells["fixSubLSTMCell"], x, Threaded))

StepPremulSubLSTMCell ==
    /\ ncalls < MaxSteps
    /\ \E x \in StepInputs("PremulSubLSTMCell") :
           \E premul_input \in {Prefuse(cells["SubLSTMCell"], x)} :
               Called("PremulSubLSTMCell", premul_input, Threaded, x,
                      PremulSubLSTMCellForward(cells["PremulSubLSTMCell"],
                                               premul_input, Threaded))

NextThread ==
    \/ StepSubLSTMCell
    \/ StepFixSubLSTMCell
    \/ StepPremulSubLSTMCell

SpecThread == InitThread /\ [][NextThread]_vars

\* ------------------------------------------------------------------------
\* Vocabulary of the properties
\* ------------------------------------------------------------------------

IsCall == last.variant /= "none"

OfClass(v) == last.variant = v

Ok == last.res.status = "ok"

\* The instance the last call was made on, and its sizes.
Self == cells[last.variant]

HSize == Self.hidden_size

ISize == Self.input_size

Batch == Rows(last.input)

hx == last.state[1]

cx == last.state[2]

hy == last.res.state[1]

cy == last.res.state[2]

\* The width forward expects of its first argument.
InputWidth == IF OfClass("PremulSubLSTMCell") THEN 4 * HSize ELSE ISize

\* The last call's arguments have the shapes of the contract: [B, I] (or
\* [B, 4H]), [B, H] and [B, H].
WellShaped ==
    /\ IsCall
    /\ Shape(last.input) = <<Batch, InputWidth>>
    /\ Shape(hx) = <<Batch, HSize>>
    /\ Shape(cx) = <<Batch, HSize>>

\* No parameter was written since the last call: cells holds the parameters
\* the call ran with.
Current == last.epoch = nupdates

\* ------------------------------------------------------------------------
\* C1.  In every class, a call with well-shaped arguments returns
\* (out, (h_new, c_new)) with out and h_new the same value.
\* Fails on the code: LayerNormSubLSTMCell.forward ends in
\* `return hy (hy, cy)`, which raises instead of returning.
\* ------------------------------------------------------------------------
C1_OutputIsHidden == WellShaped => Ok /\ last.res.out = hy

\* ------------------------------------------------------------------------
\* C2.  For all sizes B, I, H >= 1 a call with arguments of shapes [B, I]
\* (or [B, 4H]), [B, H], [B, H] returns h_new and c_new of shape [B, H], in
\* the 4-gate classes and in the 3-gate classes.
\* Fails on the code for LayerNormSubLSTMCell, which returns nothing (C1).
\* ------------------------------------------------------------------------
C2_ResultShape ==
    WellShaped =>
        /\ Ok
        /\ Shape(hy) = <<Batch, HSize>>
        /\ Shape(cy) = <<Batch, HSize>>

\* ------------------------------------------------------------------------
\* C6.  No validation or recovery: a call whose argument shapes do not
\* match the parameters (input width, hidden width, or batch sizes that
\* differ) ends in the engine's dimension-mismatch failure and returns no
\* state pair; a call with well-shaped arguments never ends in an error; no
\* call changes the parameters.
\* Fails on the code: a well-shaped call of LayerNormSubLSTMCell raises (C1).
\* ------------------------------------------------------------------------
C6_ErrorsOnlyOnMismatch ==
    IsCall =>
        /\ WellShaped => Ok
        /\ ~WellShaped => /\ last.res.status = "shape_error"
                          /\ last.res.state = <<Nil, Nil>>

\* ------------------------------------------------------------------------
\* C7.  SubLSTMCell: gates = sigmoid(x.Wih^T + bias_ih + h_prev.Whh^T +
\* bias_hh) has width 4H and is read as the slices i, f, g, o in that
\* order; for every row b and feature j,
\*     c_new[b,j] = f[b,j] * c_prev[b,j] + (g[b,j] - i[b,j])
\*     h_new[b,j] = tanh(c_new[b,j]) - o[b,j].
\* ------------------------------------------------------------------------

\* Pre-activation of gate column r in row b, term by term.
PreAct(self, x, h, b, r) ==
    Add(Add(Add(Dot(x[b], self.weight_ih[r], Len(x[b])), self.bias_ih[1][r]),
            Dot(h[b], self.weight_hh[r], Len(h[b]))),
        self.bias_hh[1][r])

\* C7: a SubLSTMCell call returns the gates, c_new and h_new of the rule
\* above, the input gate subtracted and the output gate not entering c_new.
C7_BasicRule ==
    OfClass("SubLSTMCell") /\ WellShaped /\ Current =>
        /\ Ok
        /\ Shape(last.res.gates) = <<Batch, 4 * HSize>>
        /\ \A b \in 1..Batch :
             /\ \A r \in 1..4 * HSize :
                    last.res.gates[b][r] =
                        sigmoid(PreAct(Self, last.input, hx, b, r))
             /\ \A j \in 1..HSize :
                  LET i == last.res.gates[b][j]
                      f == last.res.gates[b][HSize + j]
                      g == last.res.gates[b][2 * HSize + j]
                      o == last.res.gates[b][3 * HSize + j]
                  IN  /\ cy[b][j] = Add(Mul(f, cx[b][j]), Sub(g, i))
                      /\ hy[b][j] = Sub(tanh(cy[b][j]), o)

\* A SubLSTMCell call on a batch of two with two features has returned, and
\* the input gate took part: it is not zero somewhere.
C7_Witness ==
    /\ OfClass("SubLSTMCell") /\ WellShaped /\ Current /\ Ok
    /\ Batch = 2 /\ HSize = 2
    /\ \E b \in 1..2, j \in 1..2 :
          /\ last.res.gates[b][j] > 0
          /\ last.res.gates[b][j] /= last.res.gates[b][HSize + j]
          /\ cx[b][j] /= 0

\* ------------------------------------------------------------------------
\* C9.  LayerNormSubLSTMCell owns no bias parameters and applies its three
\* transforms in a fixed order: layernorm_i on input.Wih^T and layernorm_h
\* on h_prev.Whh^T before the two are summed and passed to sigmoid;
\* layernorm_c on f * c_prev + (g - i) before tanh; the c_new of the
\* returned state pair is that normalized value and h_new = tanh(c_new) - o.
\* Fails on the code: the call raises at its return statement (C1), so no
\* state pair is returned.
\* ------------------------------------------------------------------------
C9_NormalizedRule ==
    OfClass("LayerNormSubLSTMCell") /\ WellShaped /\ Current =>
        /\ {"bias_ih", "bias_hh"} \cap DOMAIN Self = {}
        /\ Ok
        /\ last.res.gates =
               TSigmoid(TAdd(LayerNorm(Self.layernorm_i,
                                       MmT(last.input, Self.weight_ih)),
                             LayerNorm(Self.layernorm_h,
                                       MmT(hx, Self.weight_hh))))
        /\ cy = LayerNorm(Self.layernorm_c,
                          TAdd(TMul(chunk(last.res.gates, 4, 2), cx),
                               TSub(chunk(last.res.gates, 4, 3),
                                    chunk(last.res.gates, 4, 1))))
        /\ hy = TSub(TTanh(cy), chunk(last.res.gates, 4, 4))

\* ------------------------------------------------------------------------
\* C3.  Prefusion: when the PremulSubLSTMCell instance holds the same
\* weight_hh and bias_hh as the SubLSTMCell instance and is handed
\* premul_input = x.Wih^T + bias_ih, it returns the h_new and c_new that
\* SubLSTMCell returns for x and the same state: the same numbers, the terms
\* being added in the same order.
\* ------------------------------------------------------------------------

\* The two instances hold equal hidden-side parameters.
SharedHidden ==
    /\ cells["PremulSubLSTMCell"].weight_hh = cells["SubLSTMCell"].weight_hh
    /\ cells["PremulSubLSTMCell"].bias_hh = cells["SubLSTMCell"].bias_hh

\* The last call was handed the prefusion of its raw input.
Prefused ==
    /\ Cols(last.raw) = cells["SubLSTMCell"].input_size
    /\ last.input = Prefuse(cells["SubLSTMCell"], last.raw)

\* C3: a prefused PremulSubLSTMCell call ends exactly as the SubLSTMCell call
\* on the raw input and the same state does.
C3_PrefusedEquivalence ==
    OfClass("PremulSubLSTMCell") /\ Current /\ SharedHidden /\ Prefused =>
        LET basic == SubLSTMCellForward(cells["SubLSTMCell"], last.raw,
                                        last.state)
        IN  /\ basic.status = last.res.status
            /\ basic.out = last.res.out
            /\ basic.state = last.res.state

\* A prefused call on a batch of two has returned, the hidden-side
\* parameters shared and the hidden state not all zero.
C3_Witness ==
    /\ OfClass("PremulSubLSTMCell") /\ Current /\ SharedHidden /\ Prefused
    /\ WellShaped /\ Ok /\ Batch = 2 /\ HSize = 2
    /\ \E b \in 1..2, j \in 1..2 : hx[b][j] /= 0

\* ------------------------------------------------------------------------
\* C5.  fixSubLSTMCell is invariant to batching: row b of h_new and c_new
\* of a call on a batch equals the h_new and c_new of the call on row b
\* alone, made with row b of h_prev and c_prev.
\* ------------------------------------------------------------------------
C5_BatchInvariance ==
    OfClass("fixSubLSTMCell") /\ WellShaped /\ Current =>
        /\ Ok
        /\ \A b \in 1..Batch :
             LET alone == fixSubLSTMCellForward(Self, <<last.input[b]>>,
                                                <<<<hx[b]>>, <<cx[b]>>>>)
             IN  /\ alone.status = "ok"
                 /\ alone.state[1] = <<hy[b]>>
                 /\ alone.state[2] = <<cy[b]>>

\* A fixSubLSTMCell call on a batch of two rows that differ has returned.
C5_Witness ==
    /\ OfClass("fixSubLSTMCell") /\ WellShaped /\ Current /\ Ok
    /\ Batch = 2
    /\ cx[1] /= cx[2] /\ hx[1] /= hx[2] /\ cy[1] /= cy[2]

\* ------------------------------------------------------------------------
\* C8.  In fixSubLSTMCell (and LayerNormFixSubLSTMCell) the gate tensor has
\* width 3H, read as the slices i, g, o, and the factor that multiplies
\* c_prev is sigmoid of the forget vector as it is at the call: one row of H
\* values for the whole batch, whatever the input and h_prev, and the value
\* an external update has written when one came before the call.
\* ------------------------------------------------------------------------
FixClasses == {"fixSubLSTMCell", "LayerNormFixSubLSTMCell"}

\* f * c_prev + (g - i) of the last call, element by element, with the
\* 3-gate slices and the forget row f.
FixCombined(f) ==
    [b \in 1..Batch |->
        [j \in 1..HSize |->
            Add(Mul(f[1][j], cx[b][j]),
                Sub(last.res.gates[b][HSize + j], last.res.gates[b][j]))]]

\* C8: the gates have width 3H and c_prev is multiplied by sigmoid of the
\* forget vector the instance holds at the call, one row for every batch row.
C8_ForgetVector ==
    last.variant \in FixClasses /\ WellShaped /\ Current =>
        /\ Ok
        /\ Shape(last.res.gates) = <<Batch, 3 * HSize>>
        /\ last.res.forget =
               <<[j \in 1..HSize |-> sigmoid(Self.forgetgate[1][j])]>>
        /\ cy = IF OfClass("fixSubLSTMCell")
                THEN FixCombined(last.res.forget)
                ELSE LayerNorm(Self.layernorm_c, FixCombined(last.res.forget))
        /\ \A b \in 1..Batch, j \in 1..HSize :
               hy[b][j] = Sub(tanh(cy[b][j]), last.res.gates[b][2 * HSize + j])

\* A fixSubLSTMCell call on a batch of two, made after an external update
\* of the parameters, has returned, with a forget factor strictly between 0
\* and 1 on a cell state that is not zero.
C8_Witness ==
    /\ OfClass("fixSubLSTMCell") /\ WellShaped /\ Ok
    /\ nupdates = 1 /\ last.epoch = 1 /\ Batch = 2
    /\ \E j \in 1..HSize :
          /\ last.res.forget[1][j] \in 1..(One - 1)
          /\ cx[1][j] /= 0

\* ------------------------------------------------------------------------
\* C4.  A cell is stateless between calls: no call of forward changes a
\* field of any cell, and a call repeated with the same arguments on
\* unchanged parameters ends as it did before, whatever ran in between.
\* ------------------------------------------------------------------------

\* This step is a call of forward.
CallStep == ncalls' = ncalls + 1

\* This step is a call with the arguments of the call before it, the
\* parameters not written in between.
RepeatedCall ==
    /\ CallStep /\ IsCall /\ Current
    /\ last'.variant = last.variant
    /\ last'.input = last.input
    /\ last'.state = last.state

c0 == origin[2]

\* The factor that multiplied c_prev[b][j] in the last call.
ForgetAt(b, j) == At(last.res.forget, b, j)

RECURSIVE Grow(_, _)
Grow(a, t) == IF t = 0 THEN a ELSE Add(Grow(a, t - 1), One)

=============================================================================
